---- MODULE Spec2Model ----
(***************************************************************************)
(* SentriAI: deterministic compliance scoring (riskEngine.ts) and the      *)
(* provenance hasher (provenance.ts).                                      *)
(*                                                                         *)
(* Strings are sequences of UTF-16 code units.  JavaScript numbers are     *)
(* modelled by what the operators do to them: the hash accumulator is a    *)
(* signed 32-bit integer, the weighted sum is an IEEE-754 binary64 value.  *)
(***************************************************************************)
EXTENDS Integers, Sequences, FiniteSets, TLC

---------------------------------------------------------------------------
(* Bounds of the model *)

\* longest raw wallet string handed to evaluateCompliance
MaxLen == 5
\* the wall clock takes the values 0..MaxTime
MaxTime == 1

\* code units of the raw wallet strings: ' ', 'D', 'c' and the ligature fi
\* (U+FB01)
Alphabet == {32, 68, 99, 64257}

Strings(n) == UNION {[1..k -> Alphabet] : k \in 0..n}

\* an optional field of an object is the empty set while it is undefined and
\* the set of its value once it is assigned
Undefined == {}

---------------------------------------------------------------------------
(* String.prototype methods used by the program *)

\* String.prototype.toLowerCase on one code unit (Basic Latin, and U+0130
\* whose lower case is 'i' followed by U+0307)
LowerOf(c) ==
  IF c \in 65..90 THEN <<c + 32>>
  ELSE IF c = 304 THEN <<105, 775>>
  ELSE <<c>>

\* String.prototype.toUpperCase on one code unit (Basic Latin, and sharp s,
\* dotless i, long s and the ligature fi, whose upper cases are "SS", 'I',
\* 'S' and "FI")
UpperOf(c) ==
  IF c \in 97..122 THEN <<c - 32>>
  ELSE IF c = 223 THEN <<83, 83>>
  ELSE IF c = 305 THEN <<73>>
  ELSE IF c = 383 THEN <<83>>
  ELSE IF c = 64257 THEN <<70, 73>>
  ELSE <<c>>

\* toLowerCase left out
toLowerCaseMissing(s) == s

\* Cased and Case_Ignorable of Unicode, on Basic Latin, the code units that
\* LowerOf and UpperOf name, capital and small sigma, the combining marks
\* U+0300..U+036F and U+FEFF
IsCased(c) ==
  c \in 65..90 \/ c \in 97..122
  \/ c \in {170, 181, 186, 223, 304, 305, 383, 931, 962, 963, 64257}

IsCaseIgnorable(c) ==
  c \in {39, 46, 58, 94, 96, 168, 173, 175, 180, 183, 184, 65279}
  \/ c \in 768..879

\* before position i there is a cased letter with only case-ignorable code
\* units between
RECURSIVE AfterCased(_, _)
AfterCased(s, i) ==
  IF i <= 1 THEN FALSE
  ELSE IF IsCaseIgnorable(s[i - 1]) THEN AfterCased(s, i - 1)
  ELSE IsCased(s[i - 1])

\* behind position i there is a cased letter with only case-ignorable code
\* units between
RECURSIVE BeforeCased(_, _)
BeforeCased(s, i) ==
  IF i >= Len(s) THEN FALSE
  ELSE IF IsCaseIgnorable(s[i + 1]) THEN BeforeCased(s, i + 1)
  ELSE IsCased(s[i + 1])

\* the condition Final_Sigma of SpecialCasing.txt
FinalSigma(s, i) == AfterCased(s, i) /\ ~BeforeCased(s, i)

\* the lower case of the code unit at i: capital sigma by its context, the
\* others by themselves
LowerAt(s, i) ==
  IF s[i] = 931 THEN (IF FinalSigma(s, i) THEN <<962>> ELSE <<963>>)
  ELSE LowerOf(s[i])

RECURSIVE lowerFrom(_, _)
lowerFrom(s, i) ==
  IF i > Len(s) THEN <<>> ELSE LowerAt(s, i) \o lowerFrom(s, i + 1)

toLowerCase(s) == lowerFrom(s, 1)

RECURSIVE toUpperCase(_)
toUpperCase(s) ==
  IF s = <<>> THEN <<>> ELSE UpperOf(Head(s)) \o toUpperCase(Tail(s))

\* WhiteSpace and LineTerminator code units of ECMAScript
IsWhiteSpace(c) ==
  c \in {9, 10, 11, 12, 13, 32, 160, 5760, 8232, 8233, 8239, 8287, 12288, 65279}
  \/ c \in 8192..8202

RECURSIVE trimStart(_)
trimStart(s) ==
  IF s # <<>> /\ IsWhiteSpace(Head(s)) THEN trimStart(Tail(s)) ELSE s

RECURSIVE trimEnd(_)
trimEnd(s) ==
  IF s # <<>> /\ IsWhiteSpace(s[Len(s)])
  THEN trimEnd(SubSeq(s, 1, Len(s) - 1)) ELSE s

\* at most one white-space code unit taken from each end
trimOne(s) ==
  LET t == IF s # <<>> /\ IsWhiteSpace(Head(s)) THEN Tail(s) ELSE s
  IN  IF t # <<>> /\ IsWhiteSpace(t[Len(t)]) THEN SubSeq(t, 1, Len(t) - 1)
      ELSE t

\* trim left out
trimMissing(s) == s

trim(s) == trimEnd(trimStart(s))

---------------------------------------------------------------------------
(* Integer arithmetic of hashScore.  A Number too wide for one machine    *)
(* word is the pair <<q, r>> standing for q * 2^16 + r, 0 <= r < 2^16.    *)

Limb == 65536

BigOf(n) == <<n \div Limb, n % Limb>>

BigAdd(a, b) ==
  LET r == a[2] + b[2] IN <<a[1] + b[1] + (r \div Limb), r % Limb>>

BigSub(a, b) ==
  LET r == a[2] - b[2] IN <<a[1] - b[1] + (r \div Limb), r % Limb>>

BigMul(a, k) ==
  LET r == a[2] * k IN <<a[1] * k + (r \div Limb), r % Limb>>

\* ToInt32 of ECMAScript: modulo 2^32, then into [-2^31, 2^31 - 1]
ToInt32(a) ==
  LET hi == a[1] % Limb
  IN  (IF hi >= 32768 THEN hi - Limb ELSE hi) * Limb + a[2]

\* a shift by four bits
ShiftLeft4(hash) == ToInt32(BigMul(BigOf(hash), 16))

\* hash << 5 : the left operand as int32, shifted within 32 bits
ShiftLeft5(hash) == ToInt32(BigMul(BigOf(hash), 32))

\* one iteration of the loop: hash = (hash << 5) - hash + charCode + seed;
\* hash |= 0
hashStep(hash, c, seed) ==
  ToInt32(BigAdd(BigAdd(BigSub(BigOf(ShiftLeft5(hash)), BigOf(hash)),
                        BigOf(c)),
                 BigOf(seed)))

\* the values of an int32
Int32 == (-2147483647 - 1)..2147483647

\* the loop from iteration i on; hash is an int32 at the head of every
\* iteration
RECURSIVE hashLoop(_, _, _, _)
hashLoop(input, seed, i, hash) ==
  IF hash \in Int32 /\ i < Len(input)
  THEN hashLoop(input, seed, i + 1, hashStep(hash, input[i + 1], seed))
  ELSE hash

\* a remainder that takes the sign of the divisor
FlooredRemainder(a, n) == a % n

\* the % operator of JavaScript: the result takes the sign of the dividend
Remainder(a, n) ==
  LET m == a % n IN IF a < 0 /\ m # 0 THEN m - n ELSE m

\* Math.abs left out
MathAbsMissing(x) == x

MathAbs(x) == IF x < 0 THEN 0 - x ELSE x

hashScore(input, seed) == MathAbs(Remainder(hashLoop(input, seed, 0, 0), 101))

---------------------------------------------------------------------------
(* IEEE-754 binary64 arithmetic of the weighted sum.  A non-negative      *)
(* double below 2^9 is the integer x = value * 2^55, written in four      *)
(* little-endian limbs of 16 bits: x = d[1] + d[2]*2^16 + d[3]*2^32 +     *)
(* d[4]*2^48.  Every exact product and sum below is a multiple of 2^-55.  *)

DNorm(d) ==
  LET a1 == d[1]
      a2 == d[2] + (a1 \div Limb)
      a3 == d[3] + (a2 \div Limb)
      a4 == d[4] + (a3 \div Limb)
  IN  <<a1 % Limb, a2 % Limb, a3 % Limb, a4>>

RECURSIVE BitLength(_)
BitLength(n) == IF n = 0 THEN 0 ELSE 1 + BitLength(n \div 2)

\* round to nearest, ties to even, keeping 53 significant bits
RoundToDouble(d) ==
  LET drop == BitLength(d[4]) - 5
      q    == 2 ^ drop
      rem  == d[1] % q
      down == <<d[1] - rem, d[2], d[3], d[4]>>
      odd  == (d[1] \div q) % 2 = 1
  IN  IF drop <= 0 THEN d
      ELSE IF 2 * rem > q \/ (2 * rem = q /\ odd)
           THEN DNorm(<<down[1] + q, down[2], down[3], down[4]>>)
           ELSE down

\* the double nearest to the literals 0.5, 0.3 and 0.2
Half        == <<0, 0, 0, 64>>
ThreeTenths == <<26214, 26214, 26214, 38>>
TwoTenths   == <<39322, 39321, 39321, 25>>

\* w * n for a double w and an integer n in 0..100
DoubleTimes(w, n) ==
  RoundToDouble(DNorm(<<w[1] * n, w[2] * n, w[3] * n, w[4] * n>>))

\* x + y for two doubles
DoublePlus(x, y) ==
  RoundToDouble(DNorm(<<x[1] + y[1], x[2] + y[2], x[3] + y[3], x[4] + y[4]>>))

\* x < n for a double x and an integer literal n
LessThan(x, n) == x[4] < n * 128

\* Math.round: the nearest integer, a tie going up
MathRound(x) == (x[4] \div 128) + ((x[4] \div 64) % 2)

---------------------------------------------------------------------------
(* riskEngine.ts *)

\* 0.5 * sanctions + 0.3 * behavioral + 0.2 * reputation, left to right
weightedSum(sanctions, behavioral, reputation) ==
  DoublePlus(DoublePlus(DoubleTimes(Half, sanctions),
                        DoubleTimes(ThreeTenths, behavioral)),
             DoubleTimes(TwoTenths, reputation))

\* a status that blocks everything below the upper threshold
statusOfHigh(finalScore) ==
  IF LessThan(finalScore, 70) THEN "BLOCKED" ELSE "APPROVED"

statusOf(finalScore) ==
  IF LessThan(finalScore, 30) THEN "BLOCKED"
  ELSE IF LessThan(finalScore, 70) THEN "WARNING"
  ELSE "APPROVED"

\* a scorer that salts the sanctions seed with the clock
evaluateComplianceSalted(wallet, date) ==
  LET normalized == trim(toLowerCase(wallet))
      sanctions  == hashScore(normalized, 11 + date)
      behavioral == hashScore(normalized, 29)
      reputation == hashScore(normalized, 53)
      finalScore == weightedSum(sanctions, behavioral, reputation)
      status     == statusOf(finalScore)
  IN  [wallet          |-> normalized,
       sanctionsScore  |-> sanctions,
       behavioralScore |-> behavioral,
       reputationScore |-> reputation,
       finalScore      |-> MathRound(finalScore),
       status          |-> status,
       arweaveTx       |-> Undefined,
       ledger          |-> Undefined,
       timestamp       |-> date]

\* date is the value of new Date() at the call; toISOString is a one-to-one
\* rendering of it, kept as the clock value
evaluateCompliance(wallet, date) ==
  LET normalized == trim(toLowerCase(wallet))
      sanctions  == hashScore(normalized, 11)
      behavioral == hashScore(normalized, 29)
      reputation == hashScore(normalized, 53)
      finalScore == weightedSum(sanctions, behavioral, reputation)
      status     == statusOf(finalScore)
  IN  [wallet          |-> normalized,
       sanctionsScore  |-> sanctions,
       behavioralScore |-> behavioral,
       reputationScore |-> reputation,
       finalScore      |-> MathRound(finalScore),
       status          |-> status,
       arweaveTx       |-> Undefined,
       ledger          |-> Undefined,
       timestamp       |-> date]

\* a caller of evaluateCompliance that turns its argument into a string
\* first, as String(value) does
evaluateComplianceCoercing(v, date) ==
  LET text == IF v.type = "string" THEN v.text
              ELSE IF v.type = "number" THEN <<48 + v.number>>
              ELSE IF v.type = "null" THEN <<110, 117, 108, 108>>
              ELSE <<117, 110, 100, 101, 102, 105, 110, 101, 100>>
  IN  [threw |-> FALSE, hashScoreCalls |-> 3,
       ret |-> {evaluateCompliance(text, date)}]

\* evaluateCompliance called with a value of any type: only a string has the
\* method toLowerCase, and wallet.toLowerCase() at line 159 throws a
\* TypeError for undefined, null and numbers, before the first hashScore
evaluateComplianceOf(v, date) ==
  IF v.type = "string"
  THEN [threw |-> FALSE, hashScoreCalls |-> 3,
        ret |-> {evaluateCompliance(v.text, date)}]
  ELSE [threw |-> TRUE, hashScoreCalls |-> 0, ret |-> Undefined]

---------------------------------------------------------------------------
(* provenance.ts *)

\* the string literals of provenance.ts, as code units
KeyProtocol   == <<112, 114, 111, 116, 111, 99, 111, 108>>
KeyWallet     == <<119, 97, 108, 108, 101, 116>>
KeySanctions  == <<115, 97, 110, 99, 116, 105, 111, 110, 115, 83, 99, 111, 114, 101>>
KeyBehavioral == <<98, 101, 104, 97, 118, 105, 111, 114, 97, 108, 83, 99, 111, 114, 101>>
KeyReputation == <<114, 101, 112, 117, 116, 97, 116, 105, 111, 110, 83, 99, 111, 114, 101>>
KeyFinalScore == <<102, 105, 110, 97, 108, 83, 99, 111, 114, 101>>
KeyStatus     == <<115, 116, 97, 116, 117, 115>>
TagSentriAI   == <<83, 101, 110, 116, 114, 105, 65, 73>>
PrefixAR      == <<65, 82, 95>>

\* the code units of a status
StatusText(status) ==
  CASE status = "APPROVED" -> <<65, 80, 80, 82, 79, 86, 69, 68>>
    [] status = "WARNING"  -> <<87, 65, 82, 78, 73, 78, 71>>
    [] status = "BLOCKED"  -> <<66, 76, 79, 67, 75, 69, 68>>

\* JavaScript values held by the payload object
Str(s) == [type |-> "string", text |-> s, number |-> 0]
Num(n) == [type |-> "number", text |-> <<>>, number |-> n]

\* an object is the sequence of its properties in insertion order
Property(key, value) == [key |-> key, value |-> value]

\* the object literal of createProvenancePayload with a timestamp property
payloadDataWithTimestamp(result) ==
  <<Property(KeyProtocol, Str(TagSentriAI)),
    Property(KeyWallet, Str(result.wallet)),
    Property(KeySanctions, Num(result.sanctionsScore)),
    Property(KeyBehavioral, Num(result.behavioralScore)),
    Property(KeyReputation, Num(result.reputationScore)),
    Property(KeyFinalScore, Num(result.finalScore)),
    Property(KeyStatus, Str(StatusText(result.status))),
    Property(<<116, 105, 109, 101, 115, 116, 97, 109, 112>>, Num(result.timestamp))>>

\* the object literal payloadData
payloadDataOf(result) ==
  <<Property(KeyProtocol, Str(TagSentriAI)),
    Property(KeyWallet, Str(result.wallet)),
    Property(KeySanctions, Num(result.sanctionsScore)),
    Property(KeyBehavioral, Num(result.behavioralScore)),
    Property(KeyReputation, Num(result.reputationScore)),
    Property(KeyFinalScore, Num(result.finalScore)),
    Property(KeyStatus, Str(StatusText(result.status)))>>

ObjectKeys(obj) == [i \in 1..Len(obj) |-> obj[i].key]

\* a < b in the order of Array.prototype.sort without a comparator: by code
\* units, a proper prefix first
RECURSIVE StringLess(_, _)
StringLess(a, b) ==
  IF b = <<>> THEN FALSE
  ELSE IF a = <<>> THEN TRUE
  ELSE IF Head(a) # Head(b) THEN Head(a) < Head(b)
  ELSE StringLess(Tail(a), Tail(b))

RECURSIVE Insert(_, _)
Insert(sorted, k) ==
  IF sorted = <<>> THEN <<k>>
  ELSE IF StringLess(k, Head(sorted)) THEN <<k>> \o sorted
  ELSE <<Head(sorted)>> \o Insert(Tail(sorted), k)

\* the keys left in the order they came
sortMissing(keys) == keys

\* Array.prototype.sort
RECURSIVE sort(_)
sort(keys) ==
  IF keys = <<>> THEN <<>>
  ELSE Insert(sort(SubSeq(keys, 1, Len(keys) - 1)), keys[Len(keys)])

\* obj[key]
Get(obj, key) == obj[CHOOSE i \in 1..Len(obj) : obj[i].key = key].value

\* lines 31-34: the properties of payloadData copied in the order of the
\* keys given
copyInOrder(payloadData, sortedKeys) ==
  [i \in 1..Len(sortedKeys) |->
     Property(sortedKeys[i], Get(payloadData, sortedKeys[i]))]

\* lines 30-34: the properties of payloadData copied in sorted key order
sortedPayloadOf(payloadData) ==
  copyInOrder(payloadData, sort(ObjectKeys(payloadData)))

HexDigit(n) == IF n < 10 THEN 48 + n ELSE 87 + n

\* \uXXXX
UnicodeEscape(c) ==
  <<92, 117, HexDigit(c \div 4096), HexDigit((c \div 256) % 16),
    HexDigit((c \div 16) % 16), HexDigit(c % 16)>>

IsHighSurrogate(c) == c \in 55296..56319
IsLowSurrogate(c)  == c \in 56320..57343

\* the pieces of a sequence of strings joined, by halves
RECURSIVE Concat(_, _, _)
Concat(pieces, lo, hi) ==
  IF lo > hi THEN <<>>
  ELSE IF lo = hi THEN pieces[lo]
  ELSE LET mid == (lo + hi) \div 2
       IN  Concat(pieces, lo, mid) \o Concat(pieces, mid + 1, hi)

\* a surrogate is paired when a high one is followed by a low one
IsPaired(s, i) ==
  \/ IsHighSurrogate(s[i]) /\ i < Len(s) /\ IsLowSurrogate(s[i + 1])
  \/ IsLowSurrogate(s[i]) /\ i > 1 /\ IsHighSurrogate(s[i - 1])

\* QuoteJSONString of ECMAScript for the code unit at i
QuoteUnit(s, i) ==
  LET c == s[i] IN
    IF IsPaired(s, i) THEN <<c>>
    ELSE IF c = 34 THEN <<92, 34>>
    ELSE IF c = 92 THEN <<92, 92>>
    ELSE IF c = 8 THEN <<92, 98>>
    ELSE IF c = 9 THEN <<92, 116>>
    ELSE IF c = 10 THEN <<92, 110>>
    ELSE IF c = 12 THEN <<92, 102>>
    ELSE IF c = 13 THEN <<92, 114>>
    ELSE IF c < 32 \/ IsHighSurrogate(c) \/ IsLowSurrogate(c)
         THEN UnicodeEscape(c)
    ELSE <<c>>

QuoteBody(s) == Concat([i \in 1..Len(s) |-> QuoteUnit(s, i)], 1, Len(s))

QuoteJSONString(s) == <<34>> \o QuoteBody(s) \o <<34>>

\* Number::toString of a non-negative integer
RECURSIVE NumberToString(_)
NumberToString(n) ==
  IF n < 10 THEN <<48 + n>>
  ELSE NumberToString(n \div 10) \o <<48 + (n % 10)>>

ValueToJSON(v) ==
  IF v.type = "string" THEN QuoteJSONString(v.text)
  ELSE NumberToString(v.number)

RECURSIVE PropertiesToJSON(_)
PropertiesToJSON(obj) ==
  IF obj = <<>> THEN <<>>
  ELSE QuoteJSONString(obj[1].key) \o <<58>> \o ValueToJSON(obj[1].value)
       \o (IF Len(obj) > 1 THEN <<44>> ELSE <<>>)
       \o PropertiesToJSON(Tail(obj))

\* JSON.stringify of an object of strings and numbers
JSONstringify(obj) == <<123>> \o PropertiesToJSON(obj) \o <<125>>

\* the bytes that update(text, 'utf8') makes of the code unit at i
Utf8Unit(s, i) ==
  LET c == s[i] IN
    IF IsPaired(s, i) THEN
      IF IsLowSurrogate(c) THEN <<>>
      ELSE LET p == 65536 + (c - 55296) * 1024 + (s[i + 1] - 56320)
           IN  <<240 + (p \div 262144), 128 + ((p \div 4096) % 64),
                 128 + ((p \div 64) % 64), 128 + (p % 64)>>
    ELSE IF c < 128 THEN <<c>>
    ELSE IF c < 2048 THEN <<192 + (c \div 64), 128 + (c % 64)>>
    ELSE IF IsHighSurrogate(c) \/ IsLowSurrogate(c) THEN <<239, 191, 189>>
    ELSE <<224 + (c \div 4096), 128 + ((c \div 64) % 64), 128 + (c % 64)>>

Utf8(s) == Concat([i \in 1..Len(s) |-> Utf8Unit(s, i)], 1, Len(s))

\* createHash('sha256') ... digest('hex') belongs to node:crypto, not to the
\* repository.  It is modelled as a fixed function from the bytes to 64
\* lower-case hexadecimal characters: two sums of the bytes, weighted by
\* position, fill the first eight characters and are stirred into the others.
RECURSIVE DigestSum(_, _, _, _)
DigestSum(bytes, k, lo, hi) ==
  IF lo > hi THEN 0
  ELSE IF lo = hi THEN (bytes[lo] + 1) * (((lo * k) % 251) + 1)
  ELSE LET mid == (lo + hi) \div 2
       IN  (DigestSum(bytes, k, lo, mid) + DigestSum(bytes, k, mid + 1, hi))
             % 65521

\* the 64 characters made of the two sums
DigestHex(h1, h2) ==
  [i \in 1..64 |->
     IF i <= 4 THEN HexDigit((h1 \div (16 ^ (i - 1))) % 16)
     ELSE IF i <= 8 THEN HexDigit((h2 \div (16 ^ (i - 5))) % 16)
     ELSE HexDigit(((h1 \div i) + h2 * i) % 16)]

DigestOfBytes(bytes) ==
  DigestHex(DigestSum(bytes, 31, 1, Len(bytes)),
            DigestSum(bytes, 57, 1, Len(bytes)))

Sha256Hex(text) == DigestOfBytes(Utf8(text))

\* the text made of the payload object without its last property, status
payloadJsonShort(result) ==
  JSONstringify(sortedPayloadOf(SubSeq(payloadDataOf(result), 1, 6)))

\* the text made of the payload object without its property wallet
payloadJsonNoWallet(result) ==
  JSONstringify(sortedPayloadOf(<<payloadDataOf(result)[1]>>
                                  \o SubSeq(payloadDataOf(result), 3, 7)))

\* payloadJson of createProvenancePayload: the text that is hashed
payloadJsonOf(result) == JSONstringify(sortedPayloadOf(payloadDataOf(result)))

createProvenancePayload(result) ==
  LET payloadJson == payloadJsonOf(result)
      hash        == Sha256Hex(payloadJson)
  IN  [protocol          |-> TagSentriAI,
       wallet            |-> result.wallet,
       sanctionsScore    |-> result.sanctionsScore,
       behavioralScore   |-> result.behavioralScore,
       reputationScore   |-> result.reputationScore,
       finalScore        |-> result.finalScore,
       status            |-> result.status,
       deterministicHash |-> hash]

\* String.prototype.substring(0, n)
substring0(s, n) == SubSeq(s, 1, IF n < Len(s) THEN n ELSE Len(s))

\* the token made of the whole digest
generateArweaveTxWhole(payload) == PrefixAR \o payload.deterministicHash

generateArweaveTxFromPayload(payload) ==
  LET hash == payload.deterministicHash
  IN  PrefixAR \o substring0(hash, 43)

\* lines 50-54: the record of a payload
recordOf(payload) ==
  [payload |-> payload, arweaveTx |-> generateArweaveTxFromPayload(payload)]

createProvenanceRecord(result) == recordOf(createProvenancePayload(result))

---------------------------------------------------------------------------
(* complianceStore.ts.  The array complianceChecks is passed to each      *)
(* function and the functions that write it return the array they leave.  *)

\* the store keeps at most this many checks; complianceStore.ts line 12 has
\* 100, scaled down so that the oldest check is shifted out
MaxChecks == 2

\* Array.prototype.findIndex(c => c.wallet === w): 0 stands for -1
findIndex(checks, w) ==
  IF \E i \in 1..Len(checks) : checks[i].wallet = w
  THEN CHOOSE i \in 1..Len(checks) :
         /\ checks[i].wallet = w
         /\ \A j \in 1..(i - 1) : checks[j].wallet # w
  ELSE 0

\* the check pushed whether or not its wallet is held already
storeAlwaysPush(checks, r) ==
  LET pushed == Append(checks, r)
  IN  IF Len(pushed) > MaxChecks THEN Tail(pushed) ELSE pushed

\* the check of a wallet held already left as it is: first write wins
storeKeepFirst(checks, r) ==
  LET index  == findIndex(checks, r.wallet)
      stored == IF index >= 1 THEN checks ELSE Append(checks, r)
  IN  IF Len(stored) > MaxChecks THEN Tail(stored) ELSE stored

\* the check of a wallet held already taken out and pushed again
storeMoveToEnd(checks, r) ==
  LET stored == Append(SelectSeq(checks, LAMBDA c : c.wallet # r.wallet), r)
  IN  IF Len(stored) > MaxChecks THEN Tail(stored) ELSE stored

storeComplianceCheck(checks, r) ==
  LET index  == findIndex(checks, r.wallet)
      stored == IF index >= 1 THEN [checks EXCEPT ![index] = r]
                ELSE Append(checks, r)
  IN  IF Len(stored) > MaxChecks THEN Tail(stored) ELSE stored

\* [...complianceChecks].reverse()
getAllComplianceChecks(checks) ==
  [i \in 1..Len(checks) |-> checks[Len(checks) + 1 - i]]

\* Array.prototype.find: the first check of the wallet, or undefined
getComplianceCheck(checks, w) ==
  LET index == findIndex(checks, toLowerCase(w))
  IN  IF index >= 1 THEN {checks[index]} ELSE Undefined

\* the clock ticks of one day
DayLength == 1

\* today.setHours(0, 0, 0, 0): the start of the day of the date
Midnight(date) == date - (date % DayLength)

\* filter(c => c.status === status).length
CountStatus(checks, status) ==
  Cardinality({i \in 1..Len(checks) : checks[i].status = status})

\* a || b on numbers: b when a is 0
OrElse(a, b) == IF a # 0 THEN a ELSE b

\* approved / total * 100 kept as a fraction
Rate(approved, total) == [num |-> approved * 100, den |-> total]

\* 94.2
PlaceholderRate == [num |-> 942, den |-> 10]

getDashboardStats(complianceChecks, date) ==
  LET checks          == getAllComplianceChecks(complianceChecks)
      today           == Midnight(date)
      todayChecks     == SelectSeq(checks, LAMBDA c : c.timestamp >= today)
      total           == OrElse(Len(todayChecks), Len(checks))
      counted         == IF Len(todayChecks) > 0 THEN todayChecks ELSE checks
      approved        == CountStatus(counted, "APPROVED")
      blocked         == CountStatus(counted, "BLOCKED")
      warning         == CountStatus(counted, "WARNING")
      approvedRate    == IF total > 0 THEN Rate(approved, total)
                         ELSE Rate(0, 1)
      volumeProtected == total * 2000
  IN  [walletsScreened |-> OrElse(total, 1247),
       approvedRate    |-> IF approvedRate.num # 0 THEN approvedRate
                           ELSE PlaceholderRate,
       approved        |-> approved,
       blocked         |-> OrElse(blocked, 83),
       warning         |-> warning,
       volumeProtected |-> OrElse(volumeProtected, 2400000)]

---------------------------------------------------------------------------
(* api/compliance/route.ts *)

\* values of a parsed JSON body besides strings and numbers: a property that
\* is absent, and null
Missing  == [type |-> "undefined", text |-> <<>>, number |-> 0]
JsonNull == [type |-> "null", text |-> <<>>, number |-> 0]

\* the message of zod for a value that is not of the expected type
InvalidType(expected, v) ==
  IF v.type = "undefined" THEN "Required"
  ELSE IF expected = "string" /\ v.type = "number"
         THEN "Expected string, received number"
  ELSE IF expected = "string" THEN "Expected string, received null"
  ELSE IF v.type = "string" THEN "Expected number, received string"
  ELSE "Expected number, received null"

\* complianceRequestSchema.safeParse(body).error.errors, as messages in the
\* order of the schema's keys
SchemaErrors(body) ==
  (IF body.wallet.type # "string" THEN <<InvalidType("string", body.wallet)>>
   ELSE IF Len(body.wallet.text) < 1 THEN <<"Wallet address is required">>
   ELSE <<>>)
  \o (IF body.amount.type \in {"undefined", "number"} THEN <<>>
      ELSE <<InvalidType("number", body.amount)>>)
  \o (IF body.token.type \in {"undefined", "string"} THEN <<>>
      ELSE <<InvalidType("string", body.token)>>)

IsHex(c) == c \in 48..57 \/ c \in 97..102 \/ c \in 65..70

\* /^0x[a-fA-F0-9]{40}$/.test(normalized)
isValidFormat(normalized) ==
  /\ Len(normalized) = 42
  /\ normalized[1] = 48
  /\ normalized[2] = 120
  /\ \A i \in 3..42 : IsHex(normalized[i])

\* normalized.includes('0x')
includes0x(normalized) ==
  \E i \in 1..(Len(normalized) - 1) :
    normalized[i] = 48 /\ normalized[i + 1] = 120

\* the string literal of line 37, its dash written as a hyphen
LedgerLabel == "Arweave (deterministic provenance record - mocked test write)"

\* NextResponse.json({ error }, { status })
ErrorResponse(status, error) ==
  [status |-> status, error |-> error, json |-> Undefined]

\* NextResponse.json(result)
ResultResponse(r) == [status |-> 200, error |-> "", json |-> {r}]

\* lines 36-37 with a token that does not come from the provenance record
attachOther(r, provenance) ==
  [r EXCEPT !.arweaveTx = {PrefixAR \o [i \in 1..43 |-> 48]},
            !.ledger = {LedgerLabel}]

\* a token made of the time of the check
attachTimed(r, provenance) ==
  [r EXCEPT !.arweaveTx = {PrefixAR \o NumberToString(r.timestamp)},
            !.ledger = {LedgerLabel}]

\* lines 36-37: the token of the provenance record and the label written
\* into the result
attach(r, provenance) ==
  [r EXCEPT !.arweaveTx = {provenance.arweaveTx}, !.ledger = {LedgerLabel}]

\* line 35 and lines 36-37 on the result of line 34
withProvenance(r) == attach(r, createProvenanceRecord(r))

\* line 28
rejectsFormat(normalized) ==
  ~isValidFormat(normalized) /\ ~includes0x(normalized)

\* lines 38-39: the result stored and returned
storeAndReturn(r, checks) ==
  [response |-> ResultResponse(r),
   checks   |-> storeComplianceCheck(checks, r),
   scored   |-> TRUE,
   stored   |-> {r}]

\* a return before line 34 that empties the store
refuseAndClear(status, error, checks) ==
  [response |-> ErrorResponse(status, error),
   checks   |-> <<>>,
   scored   |-> FALSE,
   stored   |-> Undefined]

\* a return before line 34: nothing scored, nothing stored
refuse(status, error, checks) ==
  [response |-> ErrorResponse(status, error),
   checks   |-> checks,
   scored   |-> FALSE,
   stored   |-> Undefined]

\* lines 25-39 on the wallet of a body that passed the schema
checkWallet(normalized, date, checks) ==
  IF rejectsFormat(normalized)
  THEN refuse(400, "Invalid wallet address format", checks)
  ELSE storeAndReturn(withProvenance(evaluateCompliance(normalized, date)),
                      checks)

\* lines 16-22 on the errors of the schema
checkSchema(errors, request, date, checks) ==
  IF errors # <<>> THEN refuse(400, errors[1], checks)
  ELSE checkWallet(trim(toLowerCase(request.body.wallet.text)), date, checks)

\* the handler from the resumption of `await request.json()` to its return,
\* on the request, the clock and the store it finds: the response, the store
\* it leaves, whether evaluateCompliance was called, and what was passed to
\* storeComplianceCheck.  A body that is not JSON makes request.json() throw
\* into the catch of line 40.
POST(request, date, checks) ==
  IF ~request.parses THEN refuse(500, "Internal server error", checks)
  ELSE checkSchema(SchemaErrors(request.body), request, date, checks)

---------------------------------------------------------------------------
(* State *)

VARIABLES
  wallet,      \* the raw string a caller passes to evaluateCompliance
  now,         \* the wall clock read by new Date()
  result,      \* the ComplianceResult returned by the latest call, or Null
  earlier,     \* the ComplianceResult returned by the call before it, or Null
  prov,        \* the latest call of createProvenanceRecord: its argument,
               \* the text it hashed and the record it returned, or Null
  kept,        \* the call of createProvenanceRecord before it, or Null
  payloadData, \* the object whose keys createProvenancePayload sorts
  canon,       \* the text and the digest made from payloadData, or Null
  complianceChecks, \* the array of complianceStore.ts
  handlers,    \* the POST handlers in flight: where each one is, the request
               \* it was given, the response it returned
  passed,      \* for each wallet, the result last passed to
               \* storeComplianceCheck
  inserted,    \* the wallets in the order they were pushed onto the array,
               \* each at its latest push
  found,       \* the latest call of getComplianceCheck: argument and return
  stats,       \* what the latest call of getDashboardStats returned
  call         \* the latest call of evaluateCompliance on a value of any
               \* type: the value and the outcome

\* the state of the API: the store and what is observed of it
apiVars == <<complianceChecks, handlers, passed, inserted, found, stats, call>>

vars == <<wallet, now, result, earlier, prov, kept, payloadData, canon,
          complianceChecks, handlers, passed, inserted, found, stats, call>>

\* nothing yet: a record that has none of the fields looked at
Null == [null |-> TRUE]

\* the POST handlers that can be in flight together
Handlers == {"h1", "h2"}

\* a handler that was not invoked
Idle == [pc |-> "idle", request |-> Null, response |-> Null,
         scored |-> FALSE, interleaved |-> FALSE]

\* the module state of complianceStore.ts after loading, no request made
NoApi ==
  /\ complianceChecks = <<>>
  /\ handlers = [h \in Handlers |-> Idle]
  /\ passed = [w \in {} |-> Null]
  /\ inserted = <<>>
  /\ found = Null
  /\ stats = Null
  /\ call = Null

\* the fields of a ComplianceResult that carry the decision
Decision(r) ==
  <<r.wallet, r.sanctionsScore, r.behavioralScore, r.reputationScore,
    r.finalScore, r.status>>

---------------------------------------------------------------------------
(* The scorer called on a wallet string, at any time, any number of times *)

InitScore ==
  /\ wallet \in Strings(MaxLen)
  /\ now = 0
  /\ result = Null
  /\ earlier = Null
  /\ prov = Null
  /\ kept = Null
  /\ payloadData = <<>>
  /\ canon = Null
  /\ NoApi

\* a call evaluateCompliance(wallet)
Evaluate ==
  /\ result' = evaluateCompliance(wallet, now)
  /\ earlier' = result
  /\ UNCHANGED <<wallet, now, prov, kept, payloadData, canon>>
  /\ UNCHANGED apiVars

\* time passes between calls
Tick ==
  /\ now < MaxTime
  /\ now' = now + 1
  /\ UNCHANGED <<wallet, result, earlier, prov, kept, payloadData, canon>>
  /\ UNCHANGED apiVars

NextScore == Evaluate \/ Tick

SpecScore == InitScore /\ [][NextScore]_vars

---------------------------------------------------------------------------
(* The hasher called on the results the scorer hands out: those of        *)
(* evaluateCompliance, whose optional fields are undefined, and those of  *)
(* checkCompliance, which carry a random token and a ledger label.        *)

\* longest raw wallet string of this composition
MaxProvLen == 2

\* its code units: 'D', '"' and '\'
ProvAlphabet == {68, 34, 92}

ProvStrings(n) == UNION {[1..k -> ProvAlphabet] : k \in 0..n}

\* crypto.randomUUID() without its dashes: 32 hexadecimal characters, here
\* one of two
Uuids == {[i \in 1..32 |-> 48], [i \in 1..32 |-> 102]}

\* riskEngine.ts line 215-218: `AR_${uuid}`
generateArweaveTx(uuid) == PrefixAR \o uuid

\* riskEngine.ts line 251-261
checkCompliance(w, date, uuid) ==
  [evaluateCompliance(w, date) EXCEPT
     !.arweaveTx = {generateArweaveTx(uuid)},
     !.ledger = {"Arweave (mocked test write)"}]

InitProv ==
  /\ wallet \in ProvStrings(MaxProvLen)
  /\ now = 0
  /\ result = Null
  /\ earlier = Null
  /\ prov = Null
  /\ kept = Null
  /\ payloadData = <<>>
  /\ canon = Null
  /\ NoApi

\* a call evaluateCompliance(wallet)
Score ==
  /\ result' = evaluateCompliance(wallet, now)
  /\ UNCHANGED <<wallet, now, earlier, prov, kept, payloadData, canon>>
  /\ UNCHANGED apiVars

\* a call checkCompliance(wallet)
CheckCompliance ==
  /\ \E uuid \in Uuids : result' = checkCompliance(wallet, now, uuid)
  /\ UNCHANGED <<wallet, now, earlier, prov, kept, payloadData, canon>>
  /\ UNCHANGED apiVars

\* a call createProvenanceRecord(result)
CreateProvenanceRecord ==
  /\ result # Null
  /\ prov' = [arg         |-> result,
              payloadJson |-> payloadJsonOf(result),
              ret         |-> createProvenanceRecord(result)]
  /\ kept' = prov
  /\ UNCHANGED <<wallet, now, result, earlier, payloadData, canon>>
  /\ UNCHANGED apiVars

NextProv == Score \/ CheckCompliance \/ CreateProvenanceRecord \/ Tick

SpecProv == InitProv /\ [][NextProv]_vars

---------------------------------------------------------------------------
(* Lines 30-36 of createProvenancePayload applied to a payload object     *)
(* whose seven properties were inserted in any order.                     *)

Permute(obj, p) == [i \in 1..Len(obj) |-> obj[p[i]]]

\* the wallet strings of the results whose payload object is permuted
CanonWallets == {<<>>, <<68, 34>>}

InitCanon ==
  /\ wallet \in CanonWallets
  /\ now = 0
  /\ result = evaluateCompliance(wallet, now)
  /\ earlier = Null
  /\ prov = Null
  /\ kept = Null
  /\ payloadData \in {Permute(payloadDataOf(result), p) :
                        p \in Permutations(1..7)}
  /\ canon = Null
  /\ NoApi

\* sort the keys, copy the properties, stringify, hash
Canonicalize ==
  /\ canon = Null
  /\ LET payloadJson == JSONstringify(sortedPayloadOf(payloadData))
     IN  canon' = [payloadJson |-> payloadJson, hash |-> Sha256Hex(payloadJson)]
  /\ UNCHANGED <<wallet, now, result, earlier, prov, kept, payloadData>>
  /\ UNCHANGED apiVars

NextCanon == Canonicalize

SpecCanon == InitCanon /\ [][NextCanon]_vars

---------------------------------------------------------------------------
(* Properties of the scorer *)

\* C1: two calls evaluateCompliance(s) on the same string return the same
\* wallet, sub-scores, finalScore and status, whenever they are made; only
\* the timestamp may differ.
Determinism ==
  (result # Null /\ earlier # Null) => Decision(result) = Decision(earlier)

\* two calls on a string that normalization changes, at different times
DeterminismWitness ==
  /\ result # Null /\ earlier # Null
  /\ result.timestamp # earlier.timestamp
  /\ result.wallet # wallet
  /\ Len(result.wallet) > 0

\* C3 (as claimed): the status follows from the returned finalScore alone:
\* BLOCKED iff finalScore < 30, WARNING iff 30 <= finalScore < 70, APPROVED
\* iff finalScore >= 70.
StatusFromFinalScore ==
  result # Null =>
    result.status = (IF result.finalScore < 30 THEN "BLOCKED"
                     ELSE IF result.finalScore < 70 THEN "WARNING"
                     ELSE "APPROVED")

Seeds == {11, 29, 53}

\* C4: hashScore returns an integer in 0..100 for every string and seed, and
\* the three sub-scores and the finalScore of every result are integers in
\* 0..100.
RangeInvariant ==
  /\ \A seed \in Seeds : hashScore(wallet, seed) \in 0..100
  /\ result # Null =>
       /\ result.sanctionsScore \in 0..100
       /\ result.behavioralScore \in 0..100
       /\ result.reputationScore \in 0..100
       /\ result.finalScore \in 0..100

\* a result one of whose accumulators ended negative, with a remainder that
\* is not zero
RangeWitness ==
  /\ result # Null
  /\ \E seed \in Seeds :
       /\ hashLoop(result.wallet, seed, 0, 0) < 0
       /\ hashScore(result.wallet, seed) > 0

\* the accumulator as the claim computes it: the exact integer
\* acc * 32 - acc + c + seed, taken modulo 2^32 and then sign-adjusted
WrapSigned32(a) ==
  LET hi == a[1] % Limb
  IN  IF hi >= 32768 THEN (hi - Limb) * Limb + a[2] ELSE hi * Limb + a[2]

RECURSIVE ExactAcc(_, _, _)
ExactAcc(text, seed, acc) ==
  IF text = <<>> THEN acc
  ELSE ExactAcc(Tail(text), seed,
         WrapSigned32(BigAdd(BigSub(BigMul(BigOf(acc), 32), BigOf(acc)),
                             BigOf(Head(text) + seed))))

\* abs(acc) % 101, abs(acc) being as large as 2^31
AbsMod101(acc) ==
  LET a == IF acc < 0 THEN BigSub(<<0, 0>>, BigOf(acc)) ELSE BigOf(acc)
  IN  ((a[1] % 101) * (Limb % 101) + a[2]) % 101

ExactAggregation ==
  result # Null =>
    result.finalScore =
      (5 * result.sanctionsScore + 3 * result.behavioralScore
         + 2 * result.reputationScore + 5) \div 10

\* C7 (as claimed): evaluateCompliance(s) and
\* evaluateCompliance(s.trim().toUpperCase()) return the same wallet,
\* sub-scores, finalScore and status, for every string s.
CaseInsensitive ==
  result # Null =>
    Decision(result) =
      Decision(evaluateCompliance(toUpperCase(trim(wallet)), now))

IsAscii(s) == \A i \in 1..Len(s) : s[i] < 128

\* C7 (amended): the same, for every string s of ASCII characters.
CaseInsensitiveAscii ==
  (result # Null /\ IsAscii(wallet)) =>
    Decision(result) =
      Decision(evaluateCompliance(toUpperCase(trim(wallet)), now))

\* an ASCII string with outer white space, an upper-case and a lower-case
\* letter
CaseInsensitiveWitness ==
  /\ result # Null
  /\ IsAscii(wallet)
  /\ trim(wallet) # wallet
  /\ toUpperCase(trim(wallet)) # trim(wallet)
  /\ toLowerCase(wallet) # wallet
  /\ Len(result.wallet) >= 2

---------------------------------------------------------------------------
(* Properties of the hasher *)

\* C2: two ComplianceResult values that agree on wallet, the three
\* sub-scores, finalScore and status get the same payload.deterministicHash
\* and the same arweaveTx from createProvenanceRecord, whatever their
\* timestamp, arweaveTx and ledger are.
HashStability ==
  (prov # Null /\ kept # Null /\ Decision(prov.arg) = Decision(kept.arg)) =>
    /\ prov.ret.payload.deterministicHash = kept.ret.payload.deterministicHash
    /\ prov.ret.arweaveTx = kept.ret.arweaveTx

\* two calls whose arguments differ in timestamp, arweaveTx and ledger
HashStabilityWitness ==
  /\ prov # Null /\ kept # Null
  /\ Decision(prov.arg) = Decision(kept.arg)
  /\ prov.arg.timestamp # kept.arg.timestamp
  /\ prov.arg.arweaveTx # kept.arg.arweaveTx
  /\ prov.arg.ledger # kept.arg.ledger

IsLowerHex(c) == c \in 48..57 \/ c \in 97..102

\* C8: the arweaveTx of a record is "AR_" followed by the first 43
\* characters of payload.deterministicHash, a digest of 64 lower-case
\* hexadecimal characters; it has 46 characters.
TokenFormat ==
  prov # Null =>
    LET hash == prov.ret.payload.deterministicHash
        tx   == prov.ret.arweaveTx
    IN  /\ Len(hash) = 64
        /\ \A i \in 1..Len(hash) : IsLowerHex(hash[i])
        /\ tx = PrefixAR \o SubSeq(hash, 1, 43)
        /\ Len(tx) = 46
        /\ \A i \in 4..Len(tx) : IsLowerHex(tx[i])

\* a record made for a result that already carries another token
TokenFormatWitness ==
  /\ prov # Null
  /\ prov.arg.arweaveTx # Undefined
  /\ prov.arg.arweaveTx # {prov.ret.arweaveTx}
  /\ Len(prov.arg.wallet) = MaxProvLen

\* piece occurs in text
Occurs(piece, text) ==
  \E i \in 1..(Len(text) - Len(piece) + 1) :
    SubSeq(text, i, i + Len(piece) - 1) = piece

\* "key":value as JSON.stringify writes a property
Pair(key, value) == QuoteJSONString(key) \o <<58>> \o ValueToJSON(value)

\* the seven properties that the claim names, with the values of result r
NamedPairs(r) ==
  <<Pair(KeyProtocol, Str(TagSentriAI)),
    Pair(KeyWallet, Str(r.wallet)),
    Pair(KeySanctions, Num(r.sanctionsScore)),
    Pair(KeyBehavioral, Num(r.behavioralScore)),
    Pair(KeyReputation, Num(r.reputationScore)),
    Pair(KeyFinalScore, Num(r.finalScore)),
    Pair(KeyStatus, Str(StatusText(r.status)))>>

\* the names that must not be keys of the hashed text, each in its quotes
ExcludedKeys ==
  {<<34, 116, 105, 109, 101, 115, 116, 97, 109, 112, 34>>,
   <<34, 97, 114, 119, 101, 97, 118, 101, 84, 120, 34>>,
   <<34, 108, 101, 100, 103, 101, 114, 34>>,
   <<34, 100, 101, 116, 101, 114, 109, 105, 110, 105, 115, 116, 105, 99,
     72, 97, 115, 104, 34>>}

\* the hashed text holds the seven named properties of the argument and has
\* room for nothing but them, their six commas and the two braces
HashedFieldSet ==
  prov # Null =>
    LET pairs == NamedPairs(prov.arg)
        text  == prov.payloadJson
    IN  /\ \A i \in 1..7 : Occurs(pairs[i], text)
        /\ Len(text) = Len(Concat(pairs, 1, 7)) + 8
        /\ \A k \in ExcludedKeys : ~Occurs(k, text)

\* the payload returned has the fields of the argument and the digest of
\* the hashed text
PayloadCarriesFields ==
  prov # Null =>
    LET payload == prov.ret.payload
        arg     == prov.arg
    IN  /\ DOMAIN payload =
             {"protocol", "wallet", "sanctionsScore", "behavioralScore",
              "reputationScore", "finalScore", "status", "deterministicHash"}
        /\ payload.protocol = TagSentriAI
        /\ payload.wallet = arg.wallet
        /\ payload.sanctionsScore = arg.sanctionsScore
        /\ payload.behavioralScore = arg.behavioralScore
        /\ payload.reputationScore = arg.reputationScore
        /\ payload.finalScore = arg.finalScore
        /\ payload.status = arg.status
        /\ payload.deterministicHash = Sha256Hex(prov.payloadJson)

\* C9: the text that createProvenancePayload hashes contains exactly the
\* protocol tag, wallet, the three sub-scores, finalScore and status of the
\* input, never timestamp, arweaveTx, ledger or deterministicHash; the
\* payload returned carries the same values plus deterministicHash; the
\* call leaves the input result as it was.
HashInputFieldSet ==
  /\ [](HashedFieldSet /\ PayloadCarriesFields)
  /\ [][(prov' # prov \/ kept' # kept) => (result' = result /\ prov'.arg = result)]_vars

\* a record made for a result that carries the three fields left out, with
\* a wallet that JSON.stringify must escape
HashInputFieldSetWitness ==
  /\ prov # Null
  /\ prov.arg = result
  /\ prov.arg.arweaveTx # Undefined
  /\ prov.arg.ledger # Undefined
  /\ prov.arg.timestamp > 0
  /\ \E i \in 1..Len(prov.arg.wallet) : prov.arg.wallet[i] \in {34, 92}

\* the keys in the order the claim lists them
AscendingKeys ==
  <<KeyBehavioral, KeyFinalScore, KeyProtocol, KeyReputation, KeySanctions,
    KeyStatus, KeyWallet>>

\* C10: the serialization that is hashed lists its keys in ascending order
\* (behavioralScore, finalScore, protocol, reputationScore, sanctionsScore,
\* status, wallet), and the hash is the same for every order in which the
\* seven properties were inserted into the payload object.
OrderIndependent ==
  canon # Null =>
    /\ \A i \in 1..6 : StringLess(AscendingKeys[i], AscendingKeys[i + 1])
    /\ canon.payloadJson =
         JSONstringify([i \in 1..7 |->
           Property(AscendingKeys[i], Get(payloadData, AscendingKeys[i]))])
    /\ canon.hash = createProvenancePayload(result).deterministicHash

\* a payload object whose insertion order is neither the literal's nor the
\* ascending one, and which ends with the key that sorts first
OrderIndependentWitness ==
  /\ canon # Null
  /\ payloadData # payloadDataOf(result)
  /\ ObjectKeys(payloadData) # AscendingKeys
  /\ payloadData[7].key = KeyBehavioral
  /\ payloadData[1].key = KeyWallet

---------------------------------------------------------------------------
(* POST /api/compliance served by handlers that run together.  A handler  *)
(* gives up control only at `await request.json()`; everything after it   *)
(* runs without interruption.                                             *)

\* "0x" followed by forty 'D'
ValidAddress == <<48, 120>> \o [i \in 1..40 |-> 68]

\* the wallet property of the bodies sent: absent, 7, "", "D", "0x" and a
\* well-formed address
WalletValues ==
  {Missing, Num(7), Str(<<>>), Str(<<68>>), Str(<<48, 120>>),
   Str(ValidAddress)}

Body(w) == [wallet |-> w, amount |-> Missing, token |-> Missing]

\* the requests sent: one whose body is not JSON, one for each wallet value,
\* and one whose amount is a string
Requests ==
  {[parses |-> FALSE, body |-> Body(Missing)]}
  \cup {[parses |-> TRUE, body |-> Body(w)] : w \in WalletValues}
  \cup {[parses |-> TRUE,
         body |-> [wallet |-> Str(ValidAddress), amount |-> Str(<<55>>),
                   token |-> Missing]]}

\* the values handed to evaluateCompliance by a caller that does not check
\* their type
Values == {Missing, JsonNull, Num(7), Str(<<48, 120>>)}

InitApi ==
  /\ wallet = <<>>
  /\ now = 0
  /\ result = Null
  /\ earlier = Null
  /\ prov = Null
  /\ kept = Null
  /\ payloadData = <<>>
  /\ canon = Null
  /\ NoApi

\* the requests sent while another may be in flight: no wallet, "0x", " 0X"
\* and "0x0"
ConcurrentRequests ==
  {[parses |-> TRUE, body |-> Body(w)] :
     w \in {Missing, Str(<<48, 120>>), Str(<<32, 48, 88>>),
            Str(<<48, 120, 48>>)}}

\* lines 13-15: a handler is invoked with a request and waits for its body
Receive(h) ==
  /\ handlers[h].pc = "idle"
  /\ \E request \in ConcurrentRequests :
       handlers' = [handlers EXCEPT ![h] =
                      [Idle EXCEPT !.pc = "awaiting", !.request = request]]
  /\ UNCHANGED <<wallet, now, result, earlier, prov, kept, payloadData, canon>>
  /\ UNCHANGED <<complianceChecks, passed, inserted, found, stats, call>>

\* lines 15-46: the body has arrived and the handler runs to its return
Handle(h) ==
  /\ handlers[h].pc = "awaiting"
  /\ \E out \in {POST(handlers[h].request, now, complianceChecks)} :
         /\ handlers' = [handlers EXCEPT ![h] =
                 [pc          |-> "done",
                  request     |-> handlers[h].request,
                  response    |-> out.response,
                  scored      |-> out.scored,
                  interleaved |-> \E g \in Handlers \ {h} :
                                    handlers[g].pc = "awaiting"]]
         /\ complianceChecks' = out.checks
  /\ UNCHANGED <<wallet, now, result, earlier, prov, kept, payloadData, canon>>
  /\ UNCHANGED <<passed, inserted, found, stats, call>>

\* the response has gone out; the handler can be invoked again
Close(h) ==
  /\ handlers[h].pc = "done"
  /\ handlers' = [handlers EXCEPT ![h] = Idle]
  /\ UNCHANGED <<wallet, now, result, earlier, prov, kept, payloadData, canon>>
  /\ UNCHANGED <<complianceChecks, passed, inserted, found, stats, call>>

NextApi ==
  \/ \E h \in Handlers : Receive(h)
  \/ \E h \in Handlers : Handle(h)
  \/ \E h \in Handlers : Close(h)
  \/ Tick

SpecApi == InitApi /\ [][NextApi]_vars

---------------------------------------------------------------------------
(* POST /api/compliance served one request at a time, and                 *)
(* evaluateCompliance called directly with values of any type.            *)

\* the wallet last passed to storeComplianceCheck recorded with its result
Record(latest, stored) ==
  IF stored = Undefined THEN latest
  ELSE LET r == CHOOSE x \in stored : TRUE
       IN  [w \in DOMAIN latest \cup {r.wallet} |->
              IF w = r.wallet THEN r ELSE latest[w]]

\* the wallet passed to storeComplianceCheck put at the end of the wallets
\* pushed when the array does not hold it, which is when line 10 pushes
Pushed(wallets, checks, stored) ==
  IF stored = Undefined THEN wallets
  ELSE LET r == CHOOSE x \in stored : TRUE
       IN  IF findIndex(checks, r.wallet) >= 1 THEN wallets
           ELSE Append(SelectSeq(wallets, LAMBDA w : w # r.wallet), r.wallet)

\* lines 13-46 with no other request in flight: handler h1 is invoked with
\* one of the requests, reads the body and runs to its return
Serve(requests) ==
  /\ \A h \in Handlers : handlers[h].pc # "awaiting"
  /\ \E request \in requests :
       \E out \in {POST(request, now, complianceChecks)} :
           /\ handlers' = [handlers EXCEPT !["h1"] =
                   [pc          |-> "done",
                    request     |-> request,
                    response    |-> out.response,
                    scored      |-> out.scored,
                    interleaved |-> FALSE]]
           /\ complianceChecks' = out.checks
           /\ passed' = Record(passed, out.stored)
           /\ inserted' = Pushed(inserted, complianceChecks, out.stored)
  /\ UNCHANGED <<wallet, now, result, earlier, prov, kept, payloadData, canon>>
  /\ UNCHANGED <<found, stats, call>>

\* evaluateCompliance called with a value of any type
CallEvaluateCompliance ==
  /\ \E v \in Values :
       call' = [arg |-> v, outcome |-> evaluateComplianceOf(v, now)]
  /\ UNCHANGED <<wallet, now, result, earlier, prov, kept, payloadData, canon>>
  /\ UNCHANGED <<complianceChecks, handlers, passed, inserted, found, stats>>

NextPost == Serve(Requests) \/ CallEvaluateCompliance \/ Tick

SpecPost == InitApi /\ [][NextPost]_vars

---------------------------------------------------------------------------
(* testDeterminism: checkCompliance called twice on one wallet *)

InitCheck ==
  /\ wallet \in ProvStrings(MaxProvLen)
  /\ now = 0
  /\ result = Null
  /\ earlier = Null
  /\ prov = Null
  /\ kept = Null
  /\ payloadData = <<>>
  /\ canon = Null
  /\ NoApi

\* part_004 lines 22-25: result1 and result2
TestDeterminism ==
  /\ \E uuid1 \in Uuids, uuid2 \in Uuids :
       /\ earlier' = checkCompliance(wallet, now, uuid1)
       /\ result' = checkCompliance(wallet, now, uuid2)
  /\ UNCHANGED <<wallet, now, prov, kept, payloadData, canon>>
  /\ UNCHANGED apiVars

NextCheck == TestDeterminism \/ Tick

SpecCheck == InitCheck /\ [][NextCheck]_vars

\* C12 (as claimed): two calls checkCompliance(w) return the same finalScore,
\* status, sub-scores and the same arweaveTx.
CheckComplianceDeterminism ==
  (result # Null /\ earlier # Null) =>
    /\ Decision(result) = Decision(earlier)
    /\ result.arweaveTx = earlier.arweaveTx

\* C13: evaluateCompliance of the empty string and of a string of white
\* space only returns wallet "", sub-scores 0, finalScore 0 and status
\* BLOCKED; hashScore("", seed) is 0 for every seed.
EmptyInput ==
  /\ \A seed \in Seeds : hashScore(<<>>, seed) = 0
  /\ (result # Null /\ \A i \in 1..Len(wallet) : IsWhiteSpace(wallet[i])) =>
       /\ result.wallet = <<>>
       /\ result.sanctionsScore = 0
       /\ result.behavioralScore = 0
       /\ result.reputationScore = 0
       /\ result.finalScore = 0
       /\ result.status = "BLOCKED"

\* a repeated call on the longest string of white space
EmptyInputWitness ==
  /\ result # Null /\ earlier # Null
  /\ Len(wallet) = MaxLen
  /\ \A i \in 1..Len(wallet) : IsWhiteSpace(wallet[i])

\* the signed 32-bit wrap of the exact integer a * m - a + c + k
UpdateBy(m, a, c, k) ==
  WrapSigned32(BigAdd(BigSub(BigMul(BigOf(a), m), BigOf(a)), BigOf(c + k)))

\* the accumulator of hashScore after the first i code units of text
AccAfter(text, seed, i) == hashLoop(SubSeq(text, 1, i), seed, 0, 0)

\* from iteration i of the loop of hashScore on, with the accumulator a: every
\* iteration replaces the accumulator by the update with the factor m
RECURSIVE UpdatesBy(_, _, _, _, _)
UpdatesBy(m, text, seed, i, a) ==
  IF i >= Len(text) THEN TRUE
  ELSE LET next == hashStep(a, text[i + 1], seed) IN
         /\ next \in Int32
         /\ next = UpdateBy(m, a, text[i + 1], seed)
         /\ UpdatesBy(m, text, seed, i + 1, next)

\* C20 (as claimed): each code unit c replaces the accumulator a by
\* truncateToInt32(a * 31 - a + c + k).
AccumulatorUpdate31 ==
  result # Null =>
    \A seed \in Seeds : UpdatesBy(31, result.wallet, seed, 0, 0)

\* C20 (amended): each code unit c replaces the accumulator a by
\* truncateToInt32(a * 32 - a + c + k), a * 32 being a << 5.
AccumulatorUpdate32 ==
  result # Null =>
    \A seed \in Seeds : UpdatesBy(32, result.wallet, seed, 0, 0)

\* a result whose accumulator was updated from a value that the factor
\* takes past 32 bits
AccumulatorUpdateWitness ==
  /\ result # Null
  /\ \E seed \in Seeds : \E i \in 2..Len(result.wallet) :
       LET a == AccAfter(result.wallet, seed, i - 1)
       IN  /\ a # 0
           /\ BigOf(ShiftLeft5(a)) # BigMul(BigOf(a), 32)

---------------------------------------------------------------------------
(* Properties of the route *)

\* the handlers that have returned
Done == {h \in Handlers : handlers[h].pc = "done"}

\* the handlers that have returned for a request whose body passed the schema
PassedSchema ==
  {h \in Done : /\ handlers[h].request.parses
                /\ SchemaErrors(handlers[h].request.body) = <<>>}

\* the wallet of the request of handler h as line 25 normalizes it
NormalizedOf(h) == trim(toLowerCase(handlers[h].request.body.wallet.text))

\* a POST whose wallet is not a string is answered 400 and nothing is scored
NonStringAnswered400 ==
  \A h \in Done :
    (handlers[h].request.parses
       /\ handlers[h].request.body.wallet.type # "string") =>
      /\ handlers[h].response.status = 400
      /\ handlers[h].response.json = Undefined
      /\ ~handlers[h].scored

\* evaluateCompliance given a value that is not a string throws before the
\* first hashScore and returns nothing
NonStringThrows ==
  (call # Null /\ call.arg.type # "string") =>
    /\ call.outcome.threw
    /\ call.outcome.hashScoreCalls = 0
    /\ call.outcome.ret = Undefined

FormatValidation ==
  \A h \in PassedSchema :
    /\ ~isValidFormat(NormalizedOf(h)) =>
         /\ handlers[h].response.status = 400
         /\ handlers[h].response.error = "Invalid wallet address format"
         /\ ~handlers[h].scored
    /\ handlers[h].scored => isValidFormat(NormalizedOf(h))

\* a response with the timestamp of its result left out
SansTimestamp(response) ==
  [response EXCEPT
     !.json = {[f \in DOMAIN r \ {"timestamp"} |-> r[f]] : r \in response.json}]

\* the response of the request handled alone: one handler, an empty store
Alone(request) == POST(request, now, <<>>).response

\* no two entries of the store have the same wallet
NoTwoEntriesOfAWallet ==
  \A i, j \in 1..Len(complianceChecks) :
    complianceChecks[i].wallet = complianceChecks[j].wallet => i = j

\* C16: under every interleaving of the concurrent handlers, which yield only
\* at the await of request.json(), the response of each request equals the
\* response it gets when handled alone, the timestamp aside, and the store
\* never holds two entries of the same wallet.
NoInterference ==
  /\ \A h \in Done :
       SansTimestamp(handlers[h].response)
         = SansTimestamp(Alone(handlers[h].request))
  /\ NoTwoEntriesOfAWallet

\* both handlers have returned 200 for the same normalized wallet, one of
\* them having resumed while the other was suspended at its await
NoInterferenceWitness ==
  /\ Done = Handlers
  /\ \A h \in Handlers : handlers[h].scored
  /\ \E h \in Handlers : handlers[h].interleaved
  /\ NormalizedOf("h1") = NormalizedOf("h2")
  /\ handlers["h1"].request # handlers["h2"].request
  /\ Len(complianceChecks) = 1

---------------------------------------------------------------------------
(* Re-verification of a returned result: README, Verification *)

\* a verifier takes the result that the last successful POST returned and
\* runs createProvenanceRecord on it, at the present time
Verify ==
  /\ handlers["h1"].pc = "done"
  /\ \E r \in handlers["h1"].response.json :
       prov' = [result |-> r, record |-> createProvenanceRecord(r), at |-> now]
  /\ UNCHANGED <<wallet, now, result, earlier, kept, payloadData, canon>>
  /\ UNCHANGED apiVars

NextVerify == Serve(Requests) \/ Verify \/ Tick

SpecVerify == InitApi /\ [][NextVerify]_vars

\* C11: for every result returned by a successful POST, which carries
\* arweaveTx and ledger, createProvenanceRecord run on the returned result at
\* any later time yields the arweaveTx held in the result.
Reverifiable ==
  /\ \A h \in Done : \A r \in handlers[h].response.json :
       {createProvenanceRecord(r).arweaveTx} = r.arweaveTx
  /\ prov # Null => {prov.record.arweaveTx} = prov.result.arweaveTx

\* the result of a well-formed address verified after the clock has advanced
ReverifiableWitness ==
  /\ prov # Null
  /\ prov.result.wallet = toLowerCase(ValidAddress)
  /\ prov.result.ledger = {LedgerLabel}
  /\ prov.at > prov.result.timestamp

---------------------------------------------------------------------------
(* The store and its lookup: complianceStore.ts *)

\* requests whose checks are stored: the wallets "0x", " 0X", "0x0" and "x0x"
StoreRequests ==
  {[parses |-> TRUE, body |-> Body(Str(w))] :
     w \in {<<48, 120>>, <<32, 48, 88>>, <<48, 120, 48>>, <<120, 48, 120>>}}

\* the strings looked up: "0x", "0X" and " 0x"
Lookups == {<<48, 120>>, <<48, 88>>, <<32, 48, 120>>}

\* getComplianceCheck called with one of the strings
GetComplianceCheck ==
  /\ \E t \in Lookups :
       found' = [arg |-> t, ret |-> getComplianceCheck(complianceChecks, t)]
  /\ UNCHANGED <<wallet, now, result, earlier, prov, kept, payloadData, canon>>
  /\ UNCHANGED <<complianceChecks, handlers, passed, inserted, stats, call>>

NextStore == Serve(StoreRequests) \/ GetComplianceCheck \/ Tick

SpecStore == InitApi /\ [][NextStore]_vars

\* C17: after any sequence of storeComplianceCheck calls, the entry held for
\* a wallet still in the store is the result passed by the latest call for
\* that wallet, and getComplianceCheck of the wallet returns that entry.
LastWriteWins ==
  \A i \in 1..Len(complianceChecks) :
    LET w == complianceChecks[i].wallet IN
      /\ w \in DOMAIN passed
      /\ complianceChecks[i] = passed[w]
      /\ getComplianceCheck(complianceChecks, w) = {passed[w]}
      /\ (found # Null /\ found.arg = w) =>
           \/ found.ret = Undefined
           \/ \E r \in found.ret : r.wallet = w

\* a wallet stored a second time, after the clock advanced and after another
\* wallet was evicted, is held with its later result
LastWriteWinsWitness ==
  /\ Len(complianceChecks) = MaxChecks
  /\ \E w \in DOMAIN passed :
       \A i \in 1..Len(complianceChecks) : complianceChecks[i].wallet # w
  /\ complianceChecks[1].timestamp > complianceChecks[MaxChecks].timestamp

\* C18 (as claimed): for every entry stored by a successful POST of a raw
\* wallet s, getComplianceCheck(t) returns that entry for every string t
\* whose normalization, trim then lower case, is that of s, surrounding
\* white space and letter case included.
LookupNormalizes ==
  [][found' # found =>
       \A i \in 1..Len(complianceChecks) :
         complianceChecks[i].wallet = toLowerCase(trim(found'.arg))
           => found'.ret = {complianceChecks[i]}]_vars

---------------------------------------------------------------------------
(* The dashboard: getDashboardStats *)

\* the dashboard route asks for the statistics
GetDashboardStats ==
  /\ stats' = getDashboardStats(complianceChecks, now)
  /\ UNCHANGED <<wallet, now, result, earlier, prov, kept, payloadData, canon>>
  /\ UNCHANGED <<complianceChecks, handlers, passed, inserted, found, call>>

NextDash == Serve(StoreRequests) \/ GetDashboardStats \/ Tick

SpecDash == InitApi /\ [][NextDash]_vars

\* the checks the statistics are about: those of today if there is one,
\* otherwise all
Considered ==
  LET today == {i \in 1..Len(complianceChecks) :
                  complianceChecks[i].timestamp >= Midnight(now)}
  IN  IF today # {} THEN today ELSE 1..Len(complianceChecks)

HowMany(status) ==
  Cardinality({i \in Considered : complianceChecks[i].status = status})

\* C19 (as claimed): whenever the store holds a check, getDashboardStats
\* returns walletsScreened, approved, blocked and warning equal to the number
\* of considered checks and the numbers of them that are APPROVED, BLOCKED
\* and WARNING, so the three add up to walletsScreened, and none of the
\* placeholders 1247, 94.2, 83 and 2400000 is returned.
StatsFromChecks ==
  [][(stats' # stats /\ Len(complianceChecks) > 0) =>
       /\ stats'.walletsScreened = Cardinality(Considered)
       /\ stats'.approved = HowMany("APPROVED")
       /\ stats'.blocked = HowMany("BLOCKED")
       /\ stats'.warning = HowMany("WARNING")
       /\ stats'.approved + stats'.blocked + stats'.warning
            = stats'.walletsScreened
       /\ stats'.walletsScreened # 1247
       /\ stats'.approvedRate # PlaceholderRate
       /\ stats'.blocked # 83
       /\ stats'.volumeProtected # 2400000]_vars

---------------------------------------------------------------------------
(* Calls of evaluateCompliance on one address after another: README, Example
   Wallets *)

\* the length of the addresses tried
PairLen == 3

\* the addresses tried: the strings of '0', 'x' and 'd' of that length
PairWallets == [1..PairLen -> {48, 120, 100}]

InitPair ==
  /\ wallet \in PairWallets
  /\ now = 0
  /\ result = Null
  /\ earlier = Null
  /\ prov = Null
  /\ kept = Null
  /\ payloadData = <<>>
  /\ canon = Null
  /\ NoApi

\* the user tries another address
TryAnother ==
  /\ wallet' \in PairWallets
  /\ result' = evaluateCompliance(wallet', now)
  /\ earlier' = result
  /\ UNCHANGED <<now, prov, kept, payloadData, canon>>
  /\ UNCHANGED apiVars

NextPair == TryAnother \/ Tick

SpecPair == InitPair /\ [][NextPair]_vars

\* C21 (as claimed): for any two strings whose normalized forms differ,
\* evaluateCompliance returns results that differ in at least one of
\* sanctionsScore, behavioralScore and reputationScore.
DifferentScores ==
  (result # Null /\ earlier # Null /\ result.wallet # earlier.wallet) =>
    \/ result.sanctionsScore # earlier.sanctionsScore
    \/ result.behavioralScore # earlier.behavioralScore
    \/ result.reputationScore # earlier.reputationScore

---------------------------------------------------------------------------
(* Properties of the store under successive POSTs *)

\* the elements of a sequence
Range(seq) == {seq[i] : i \in 1..Len(seq)}

\* the place of a wallet among the wallets pushed
PlaceOf(w) == CHOOSE i \in 1..Len(inserted) : inserted[i] = w

\* the entry of the store whose wallet was pushed earliest
EarliestPushed ==
  CHOOSE c \in Range(complianceChecks) :
    \A d \in Range(complianceChecks) : PlaceOf(c.wallet) <= PlaceOf(d.wallet)

\* what a call storeComplianceCheck(r) that takes the store from the unprimed
\* to the primed array may do
StoresFifo(r) ==
  IF \E c \in Range(complianceChecks) : c.wallet = r.wallet
  THEN /\ Len(complianceChecks') = Len(complianceChecks)
       /\ \A i \in 1..Len(complianceChecks) :
            IF complianceChecks[i].wallet = r.wallet
            THEN complianceChecks'[i] = r
            ELSE complianceChecks'[i] = complianceChecks[i]
  ELSE IF Len(complianceChecks) = MaxChecks
  THEN /\ Range(complianceChecks')
            = (Range(complianceChecks) \ {EarliestPushed}) \cup {r}
       /\ Len(complianceChecks') = MaxChecks
  ELSE /\ Range(complianceChecks') = Range(complianceChecks) \cup {r}
       /\ Len(complianceChecks') = Len(complianceChecks) + 1

\* C22: after every storeComplianceCheck call the store holds at most the
\* limit of entries; storing a wallet not held into a full store removes
\* exactly the entry whose wallet was inserted earliest, overwrites since
\* then notwithstanding, and keeps the new entry; storing a wallet that is
\* held removes nothing.
BoundedFifo ==
  /\ [](Len(complianceChecks) <= MaxChecks)
  /\ [][(handlers' # handlers \/ complianceChecks' # complianceChecks) =>
          \A r \in handlers'["h1"].response.json : StoresFifo(r)]_vars

\* the store is full, the wallet just stored is its newest entry, and the
\* wallet that made room for it had been overwritten after the oldest entry
\* that is left was stored
BoundedFifoWitness ==
  /\ Len(complianceChecks) = MaxChecks
  /\ handlers["h1"].response.json = {complianceChecks[MaxChecks]}
  /\ \E w \in Range(inserted) :
       /\ \A c \in Range(complianceChecks) : c.wallet # w
       /\ passed[w].timestamp > complianceChecks[1].timestamp

\* requests of every outcome: a body that is not JSON, no wallet, the wallet
\* "D", and the wallets "0x", "0x0" and "x0x"
OutcomeRequests ==
  {[parses |-> FALSE, body |-> Body(Missing)]}
  \cup {[parses |-> TRUE, body |-> Body(w)] :
          w \in {Missing, Str(<<68>>), Str(<<48, 120>>), Str(<<48, 120, 48>>),
                 Str(<<120, 48, 120>>)}}

NextOutcome == Serve(OutcomeRequests) \/ Tick

SpecOutcome == InitApi /\ [][NextOutcome]_vars

\* the entries of the store for wallets other than w
Others(checks, w) == {c \in Range(checks) : c.wallet # w}

\* what a POST answered with the response may have done to the store
StoreFollows(request, response) ==
  IF response.status = 200
  THEN \A r \in response.json :
         /\ r.wallet = trim(toLowerCase(request.body.wallet.text))
         /\ r.arweaveTx # Undefined /\ r.ledger # Undefined
         /\ \E i \in 1..Len(complianceChecks') :
              /\ complianceChecks'[i] = r
              /\ \A j \in 1..Len(complianceChecks') :
                   complianceChecks'[j].wallet = r.wallet => j = i
         /\ Others(complianceChecks', r.wallet)
              \subseteq Others(complianceChecks, r.wallet)
         /\ Cardinality(Others(complianceChecks, r.wallet)
                          \ Others(complianceChecks', r.wallet)) <= 1
  ELSE /\ response.status \in {400, 500}
       /\ response.json = Undefined
       /\ complianceChecks' = complianceChecks

\* C23: a POST answered 400 or 500 leaves the store as it was; a POST
\* answered 200 leaves under the normalized wallet one entry whose fields
\* are those of the response body, and the entries of the other wallets are
\* unchanged but for at most one eviction.
StoreOnlyOnSuccess ==
  [][(handlers' # handlers \/ complianceChecks' # complianceChecks) =>
       StoreFollows(handlers'["h1"].request, handlers'["h1"].response)]_vars

\* a body that is not JSON answered 500 while the store is full, an entry
\* having been evicted before
StoreOnlyOnSuccessWitness ==
  /\ handlers["h1"].pc = "done"
  /\ handlers["h1"].response.status = 500
  /\ Len(complianceChecks) = MaxChecks
  /\ Len(inserted) > MaxChecks

\* two checks that differ in nothing but, possibly, their timestamp
SameButTimestamp(c, d) ==
  \A f \in (DOMAIN c \cup DOMAIN d) \ {"timestamp"} :
    f \in DOMAIN c /\ f \in DOMAIN d /\ c[f] = d[f]

\* C24: over any sequence of successful POSTs every entry ever held in the
\* store for a wallet has the same sanctionsScore, behavioralScore,
\* reputationScore, finalScore, status and arweaveTx; an overwrite changes
\* the timestamp only.
DecisionsNeverChange ==
  /\ [](\A c \in Range(complianceChecks) :
          c.wallet \in DOMAIN passed /\ SameButTimestamp(c, passed[c.wallet]))
  /\ [][\A w \in DOMAIN passed :
          w \in DOMAIN passed' /\ SameButTimestamp(passed[w], passed'[w])]_vars

\* an entry overwritten after an entry behind it was stored
DecisionsNeverChangeWitness ==
  \E i, j \in 1..Len(complianceChecks) :
    /\ i < j
    /\ complianceChecks[i].timestamp > complianceChecks[j].timestamp
    /\ complianceChecks[i].arweaveTx # Undefined

\* C25 (as claimed): after any sequence of storeComplianceCheck calls
\* getAllComplianceChecks lists the checks from the most recently stored to
\* the least recently stored, so its first element is the result passed to
\* the latest call.
RecentFirst ==
  [][(handlers' # handlers \/ complianceChecks' # complianceChecks) =>
       \A r \in handlers'["h1"].response.json :
         getAllComplianceChecks(complianceChecks')[1] = r]_vars

---------------------------------------------------------------------------
(* The aggregation on addresses at a threshold: riskEngine.ts lines 167-181 *)

\* "0xe31a827cdfc8c305ed8d093783450119666791": 0x and 38 hexadecimal digits
\* whose sub-scores are 7, 87 and 2
ThresholdAddress ==
  <<48, 120, 101, 51, 49, 97, 56, 50, 55, 99, 100, 102, 99, 56, 99, 51, 48,
    53, 101, 100, 56, 100, 48, 57, 51, 55, 56, 51, 52, 53, 48, 49, 49, 57,
    54, 54, 54, 55, 57, 49>>

\* the addresses evaluated: that address and the well-formed one, as they
\* are, in upper case, and with a space before, behind or on both sides
ThresholdWallets ==
  {before \o a \o behind :
     before \in {<<>>, <<32>>}, behind \in {<<>>, <<32>>},
     a \in {ThresholdAddress, toUpperCase(ThresholdAddress), ValidAddress,
            toLowerCase(ValidAddress)}}

InitThreshold ==
  /\ wallet \in ThresholdWallets
  /\ now = 0
  /\ result = Null
  /\ earlier = Null
  /\ prov = Null
  /\ kept = Null
  /\ payloadData = <<>>
  /\ canon = Null
  /\ NoApi

SpecThreshold == InitThreshold /\ [][NextScore]_vars

\* the weighted sum of the sub-scores of a result, in tenths
Tenths(r) ==
  5 * r.sanctionsScore + 3 * r.behavioralScore + 2 * r.reputationScore

\* C26 (as claimed): status is BLOCKED iff 5*s + 3*b + 2*r < 300, WARNING iff
\* 300 <= 5*s + 3*b + 2*r < 700 and APPROVED otherwise, and finalScore is the
\* rounded value of the same sum.
StatusOnExactSum ==
  result # Null =>
    /\ result.status = "BLOCKED" <=> Tenths(result) < 300
    /\ result.status = "WARNING" <=>
         (300 <= Tenths(result) /\ Tenths(result) < 700)
    /\ result.status = "APPROVED" <=> Tenths(result) >= 700
    /\ result.finalScore = (Tenths(result) + 5) \div 10

---------------------------------------------------------------------------
(* The scorer built of agent objects: part_006 *)

\* the three singleton agents
sanctionsAgent  == [name |-> "Sanctions Agent", seed |-> 11]
behavioralAgent == [name |-> "Behavioral Agent", seed |-> 29]
reputationAgent == [name |-> "Reputation Agent", seed |-> 53]

\* an agent that puts the wallet into upper case
evaluateUpper(agent, w) == hashScore(trim(toUpperCase(w)), agent.seed)

\* agent.evaluate(wallet)
evaluate(agent, w) == hashScore(trim(toLowerCase(w)), agent.seed)

\* evaluateCompliance of part_006
evaluateComplianceAgents(w, date) ==
  LET normalized == trim(toLowerCase(w))
      sanctions  == evaluate(sanctionsAgent, normalized)
      behavioral == evaluate(behavioralAgent, normalized)
      reputation == evaluate(reputationAgent, normalized)
      finalScore == weightedSum(sanctions, behavioral, reputation)
      status     == statusOf(finalScore)
  IN  [wallet          |-> normalized,
       sanctionsScore  |-> sanctions,
       behavioralScore |-> behavioral,
       reputationScore |-> reputation,
       finalScore      |-> MathRound(finalScore),
       status          |-> status,
       arweaveTx       |-> Undefined,
       ledger          |-> Undefined,
       timestamp       |-> date]

\* the length of the strings given to both scorers
AgentLen == 3

\* their code units: ' ', U+FEFF, 'A', capital sigma and capital I with dot
AgentAlphabet == {32, 65279, 65, 931, 304}

AgentStrings == UNION {[1..k -> AgentAlphabet] : k \in 0..AgentLen}

InitAgents ==
  /\ wallet \in AgentStrings
  /\ now = 0
  /\ result = Null
  /\ earlier = Null
  /\ prov = Null
  /\ kept = Null
  /\ payloadData = <<>>
  /\ canon = Null
  /\ NoApi

\* a call of the evaluateCompliance of riskEngine.ts
CallDirect ==
  /\ result' = evaluateCompliance(wallet, now)
  /\ UNCHANGED <<wallet, now, earlier, prov, kept, payloadData, canon>>
  /\ UNCHANGED apiVars

\* a call of the evaluateCompliance of part_006
CallAgents ==
  /\ call' = [arg     |-> Str(wallet),
              outcome |-> [threw          |-> FALSE,
                           hashScoreCalls |-> 3,
                           ret |-> {evaluateComplianceAgents(wallet, now)}]]
  /\ UNCHANGED <<wallet, now, result, earlier, prov, kept, payloadData, canon>>
  /\ UNCHANGED <<complianceChecks, handlers, passed, inserted, found, stats>>

NextAgents == CallDirect \/ CallAgents \/ Tick

SpecAgents == InitAgents /\ [][NextAgents]_vars

\* C27: for every input string the scorer built of the three agent objects,
\* each normalizing again, returns the same wallet, sub-scores, finalScore
\* and status as the scorer built of three direct hashScore calls.
AgentsEquivalent ==
  /\ Decision(evaluateComplianceAgents(wallet, now))
       = Decision(evaluateCompliance(wallet, now))
  /\ (result # Null /\ call # Null) =>
       \A r \in call.outcome.ret : Decision(r) = Decision(result)

\* both scorers were called, at different times, on a string that the
\* normalization changes at its ends and in its letters
AgentsEquivalentWitness ==
  /\ result # Null
  /\ call # Null
  /\ \E r \in call.outcome.ret : r.timestamp # result.timestamp
  /\ Len(wallet) = AgentLen
  /\ IsWhiteSpace(wallet[1])
  /\ trim(wallet) # toLowerCase(trim(wallet))

\* C28: for every string s, s.toLowerCase().trim() equals
\* s.trim().toLowerCase(), and normalizing a normalized string returns it
\* unchanged, so the normalizations of the route, of evaluateCompliance and
\* of each agent yield one and the same identifier.
NormalizationStable ==
  LET normalized == trim(toLowerCase(wallet)) IN
    /\ normalized = toLowerCase(trim(wallet))
    /\ trim(toLowerCase(normalized)) = normalized
    /\ evaluateCompliance(normalized, now).wallet = normalized
    /\ \A agent \in {sanctionsAgent, behavioralAgent, reputationAgent} :
         evaluate(agent, normalized) = hashScore(normalized, agent.seed)
    /\ result # Null => result.wallet = normalized
    /\ call # Null => \A r \in call.outcome.ret : r.wallet = normalized

\* both scorers returned the identifier of a string that begins with white
\* space and whose capital sigma became a final sigma
NormalizationStableWitness ==
  /\ result # Null
  /\ call # Null
  /\ Len(wallet) > 0
  /\ IsWhiteSpace(wallet[1])
  /\ 962 \in Range(result.wallet)
  /\ Len(result.wallet) < Len(wallet)

---------------------------------------------------------------------------
(* The wallet detail page: app/wallet/[address]/page.tsx *)

\* redFlags.push(flag) if the condition holds
PushIf(flags, condition, flag) ==
  IF condition THEN Append(flags, flag) ELSE flags

\* lines 95-113: the red flags shown for a result
redFlags(r) ==
  LET f1 == PushIf(<<>>, r.sanctionsScore < 30, "OFAC sanctions hit detected")
      f2 == PushIf(f1, r.behavioralScore < 30,
                   "Wash trading patterns identified")
      f3 == PushIf(f2, r.reputationScore < 30, "New wallet with no history")
      f4 == PushIf(f3, r.sanctionsScore < 50 /\ r.status = "BLOCKED",
                   "Multiple sanctions violations")
      f5 == PushIf(f4, r.behavioralScore < 50 /\ r.status = "BLOCKED",
                   "Suspicious trading behavior")
  IN  PushIf(f5, r.reputationScore < 50 /\ r.status = "BLOCKED",
             "Poor reputation history")

\* C30: for every result of evaluateCompliance with status BLOCKED the list
\* of red flags computed by the wallet detail page is not empty, at least
\* one sub-score being below 50.
BlockedHasReason ==
  (result # Null /\ result.status = "BLOCKED") =>
    /\ redFlags(result) # <<>>
    /\ \/ result.sanctionsScore < 50
       \/ result.behavioralScore < 50
       \/ result.reputationScore < 50

\* a blocked result whose sanctions score is 30 or more and which is shown
\* with five flags
BlockedHasReasonWitness ==
  /\ result # Null
  /\ result.status = "BLOCKED"
  /\ result.sanctionsScore \in 30..49
  /\ Len(redFlags(result)) = 5

---------------------------------------------------------------------------
(* Two decisions and the texts hashed for them.                           *)

\* the addresses checked: the empty one, 'd' and 'D', "0x", "0x0", "x0x",
\* "x0d" and "dxx", "0x0d" and "0dxx", and two that JSON.stringify has to
\* escape: '"' and '\"'
SerialWallets ==
  {<<>>, <<100>>, <<68>>, <<48, 120>>, <<48, 120, 48>>, <<120, 48, 120>>,
   <<120, 48, 100>>, <<100, 120, 120>>, <<48, 120, 48, 100>>,
   <<48, 100, 120, 120>>, <<34>>, <<92, 34>>}

InitSerial ==
  /\ wallet \in SerialWallets
  /\ now = 0
  /\ result = Null
  /\ earlier = Null
  /\ prov = Null
  /\ kept = Null
  /\ payloadData = <<>>
  /\ canon = Null
  /\ NoApi

\* route.ts lines 34-35 for one more address: the address is evaluated and
\* the record of the result is made
EvaluateAndRecord ==
  /\ wallet' \in SerialWallets
  /\ result' = evaluateCompliance(wallet', now)
  /\ prov' = [arg         |-> result',
              payloadJson |-> payloadJsonOf(result'),
              ret         |-> createProvenanceRecord(result')]
  /\ kept' = prov
  /\ UNCHANGED <<now, earlier, payloadData, canon>>
  /\ UNCHANGED apiVars

NextSerial == EvaluateAndRecord

SpecSerial == InitSerial /\ [][NextSerial]_vars

\* the two results differ in one of the fields of the decision
Differ(c, d) ==
  \/ c.wallet # d.wallet
  \/ c.sanctionsScore # d.sanctionsScore
  \/ c.behavioralScore # d.behavioralScore
  \/ c.reputationScore # d.reputationScore
  \/ c.finalScore # d.finalScore
  \/ c.status # d.status

====
